---------------------------- MODULE Spec2Model ----------------------------
(***************************************************************************)
(* A model of the raquet raster extension: the gzip codec adapter          *)
(* (band_decoder.cpp), the descriptor parser (raquet_metadata.hpp), the    *)
(* single-pixel decoder (band_decoder.cpp) and the four row-wise           *)
(* ST_RasterSummaryStats overloads (st_raster_stats.cpp).                  *)
(*                                                                         *)
(* Each component has its own specification over the shared variables; the *)
(* variables of the other components stay at their idle values.            *)
(***************************************************************************)
EXTENDS Integers, Sequences, FiniteSets, TLC

VARIABLES
    \* ---- decompress_gzip (band_decoder.cpp:11-88) ----
    dpc,            \* position inside decompress_gzip
    data,           \* the input pointer: "null" or "ptr"
    size,           \* the declared input size in bytes
    stream,         \* what the bytes behind data are, as zlib sees them
    result_size,    \* result.size(): the output buffer's size
    ret,            \* the last return code of inflateInit2 / inflate
    avail_out,      \* strm.avail_out after the last inflate
    passes,         \* the sizes of the output buffers inflate was called with
    returned,       \* the call's outcome once it has ended
    \* ---- parse_metadata (raquet_metadata.hpp:156-188) ----
    ppc,            \* position of the call of parse_metadata
    descriptor,     \* the descriptor string passed as json
    meta,           \* the RaquetMetadata returned
    \* ---- decode_pixel (band_decoder.cpp:90-110) ----
    xpc,            \* position inside decode_pixel
    pixel,          \* the arguments of the call
    xdata,          \* the buffer `data` points to: its length in elements
    xreads,         \* the element offsets get_pixel_value was asked to read
    xout,           \* the call's outcome once it has ended
    \* ---- the ST_RasterSummaryStats overloads (st_raster_stats.cpp) ----
    rpc,            \* "loop", "done", or "failed" once an exception escaped
    fn,             \* the overload called
    args,           \* the rows of the DataChunk
    i,              \* the loop index: the rows done so far
    result_validity, \* FlatVector::Validity(result): one bit per row
    field_validity, \* the validity of the struct's child vectors, per row
    struct_entries, \* the six child vectors: count .. stddev per row
    calls,          \* the arguments compute_band_stats got for each row
    failed,         \* the exception that left the function, if any
    \* ---- decode_band (band_decoder.cpp:112-136) ----
    bpc,            \* position inside decode_band
    band_call,      \* the arguments of the call
    bdata,          \* the buffer `data` points to: the elements wholly inside it
    pixel_count,    \* size_t pixel_count
    bi,             \* the loop index i
    breads,         \* the element offsets get_pixel_value was asked to read
    band_result,    \* std::vector<double> result, as filled so far
    bout            \* the call's outcome once it has ended

dvars == <<dpc, data, size, stream, result_size, ret, avail_out, passes, returned>>
pvars == <<ppc, descriptor, meta>>
xvars == <<xpc, pixel, xdata, xreads, xout>>
rvars == <<rpc, fn, args, i, result_validity, field_validity, struct_entries,
           calls, failed>>

bvars == <<bpc, band_call, bdata, pixel_count, bi, breads, band_result, bout>>

vars == <<dvars, pvars, xvars, rvars, bvars>>

(***************************************************************************)
(* Bounds of the model.                                                    *)
(***************************************************************************)
\* Input sizes 0..MaxSize: both sides of the size > 100 test are covered.
MaxSize == 102
\* How far past four times the first buffer a stream's plain text may reach.
MaxExcess == 2
\* The most fields a descriptor's tiling object holds.
MaxTilingFields == 2
\* The longest free-form (key-free) descriptor.
MaxRawLen == 3
\* The widest and the highest pixel grid of a band.
MaxWidth == 2
MaxHeight == 2
\* The band objects of a bands section.
MaxBandObjects == 2
\* The elements a band buffer may fall short of width * height.
MaxShort == 2
\* The samples of a band buffer.
MaxSamples == 2
\* The rows that share a batch with the row looked at.
MaxNeighbours == 1
\* The width of size_t in the model (64 in the build): every buffer of the
\* model is far shorter than 2^SizeBits elements.
SizeBits == 16

(***************************************************************************)
(* zlib, as decompress_gzip uses it.                                       *)
(***************************************************************************)
Z_OK == "Z_OK"
Z_STREAM_END == "Z_STREAM_END"
Z_BUF_ERROR == "Z_BUF_ERROR"
Z_DATA_ERROR == "Z_DATA_ERROR"
Z_MEM_ERROR == "Z_MEM_ERROR"

\* A gzip stream is valid (ends after outLen bytes of plain text), truncated
\* (the input ends after outLen bytes were produced) or corrupt (zlib finds
\* the corruption after outLen bytes were produced).
StreamKinds == {"valid", "truncated", "corrupt"}

\* inflate(&strm, Z_FINISH) on a fresh stream with `avail` bytes of output
\* space: zlib runs until the output is full, the input ends or an error is
\* found.
inflate(s, avail) ==
    IF s.outLen > avail
    THEN [ret |-> Z_BUF_ERROR, avail_out |-> 0]
    ELSE [ret |-> CASE s.kind = "valid" -> Z_STREAM_END
                    [] s.kind = "truncated" -> Z_BUF_ERROR
                    [] OTHER -> Z_DATA_ERROR,
          avail_out |-> avail - s.outLen]

\* inflateInit2(&strm, 15 + 16): Z_OK unless the allocation fails.
inflateInit2(ok) == IF ok THEN Z_OK ELSE Z_MEM_ERROR

(***************************************************************************)
(* decompress_gzip                                                         *)
(***************************************************************************)
\* size_t estimated_size = 256 * 256; if (size > 100) estimated_size = size * 50;
DefaultTileSize == 256 * 256
SmallInputLimit == 100
RatioEstimate == 50
RetryFactor == 4

estimated_size(sz) ==
    IF sz > SmallInputLimit THEN sz * RatioEstimate ELSE DefaultTileSize

\* The exceptions of decompress_gzip, all std::runtime_error, by message.
NullData == "Null data pointer for decompression"
InitFailed == "inflateInit2 failed"
RetryInitFailed == "inflateInit2 retry failed"
RetryFailed == "inflate retry failed"
InflateFailed == "inflate failed"

Raised(what) == [tag |-> "raised", what |-> what]
Returned(n) == [tag |-> "returned", len |-> n]
Running == [tag |-> "running"]

\* The spec's taxonomy of the exception messages.
ErrorKind(what) == IF what = NullData THEN "InvalidInput" ELSE "DecodeFailure"

\* DEntry with the two entry tests in the other order: the null test first.
DEntry_NullFirst ==
    /\ dpc = "entry"
    /\ IF data = "null"
       THEN /\ dpc' = "done"
            /\ returned' = Raised(NullData)
       ELSE IF size = 0
       THEN /\ dpc' = "done"
            /\ returned' = Returned(0)
       ELSE /\ dpc' = "init"
            /\ UNCHANGED returned
    /\ UNCHANGED <<data, size, stream, result_size, ret, avail_out, passes>>

\* if (size == 0) return {};  if (data == nullptr) throw ...
DEntry ==
    /\ dpc = "entry"
    /\ IF size = 0
       THEN /\ dpc' = "done"
            /\ returned' = Returned(0)
       ELSE IF data = "null"
       THEN /\ dpc' = "done"
            /\ returned' = Raised(NullData)
       ELSE /\ dpc' = "init"
            /\ UNCHANGED returned
    /\ UNCHANGED <<data, size, stream, result_size, ret, avail_out, passes>>

\* std::vector<uint8_t> result(estimated_size); ... inflateInit2(&strm, 15 + 16)
DInit ==
    /\ dpc = "init"
    /\ result_size' = estimated_size(size)
    /\ ret' = inflateInit2(stream.init1)
    /\ IF ret' # Z_OK
       THEN /\ dpc' = "done"
            /\ returned' = Raised(InitFailed)
       ELSE /\ dpc' = "inflate"
            /\ UNCHANGED returned
    /\ UNCHANGED <<data, size, stream, avail_out, passes>>

\* ret = inflate(&strm, Z_FINISH);
DInflate ==
    /\ dpc = "inflate"
    /\ LET r == inflate(stream, result_size) IN
          /\ ret' = r.ret
          /\ avail_out' = r.avail_out
    /\ passes' = Append(passes, result_size)
    /\ dpc' = "check"
    /\ UNCHANGED <<data, size, stream, result_size, returned>>

\* if (ret == Z_BUF_ERROR && strm.avail_out == 0): the retry is taken
NeedsRetry(r, avail) == r = Z_BUF_ERROR /\ avail = 0

\* DCheck whose retry keeps the first buffer's size (the resize forgotten).
DCheck_NoGrow ==
    /\ dpc = "check"
    /\ IF NeedsRetry(ret, avail_out)
       THEN /\ ret' = inflateInit2(stream.init2)
            /\ IF ret' # Z_OK
               THEN /\ dpc' = "done"
                    /\ returned' = Raised(RetryInitFailed)
               ELSE /\ dpc' = "retry"
                    /\ UNCHANGED returned
            /\ UNCHANGED result_size
       ELSE /\ dpc' = "done"
            /\ returned' = IF ret # Z_STREAM_END
                           THEN Raised(InflateFailed)
                           ELSE Returned(result_size - avail_out)
            /\ UNCHANGED <<result_size, ret>>
    /\ UNCHANGED <<data, size, stream, avail_out, passes>>

\* The three ways on after the first pass: retry, failure, success.
DCheck ==
    /\ dpc = "check"
    /\ IF NeedsRetry(ret, avail_out)
       THEN \* result.resize(result.size() * 4); inflateInit2(&strm2, 15 + 16)
            /\ result_size' = result_size * RetryFactor
            /\ ret' = inflateInit2(stream.init2)
            /\ IF ret' # Z_OK
               THEN /\ dpc' = "done"
                    /\ returned' = Raised(RetryInitFailed)
               ELSE /\ dpc' = "retry"
                    /\ UNCHANGED returned
       ELSE /\ dpc' = "done"
            /\ returned' = IF ret # Z_STREAM_END
                           THEN Raised(InflateFailed)
                           ELSE Returned(result_size - avail_out)
            /\ UNCHANGED <<result_size, ret>>
    /\ UNCHANGED <<data, size, stream, avail_out, passes>>

\* DRetry that grows the buffer and tries again whenever it is exhausted.
DRetry_Again ==
    /\ dpc = "retry"
    /\ LET r == inflate(stream, result_size) IN
          /\ ret' = r.ret
          /\ avail_out' = r.avail_out
          /\ IF NeedsRetry(r.ret, r.avail_out)
             THEN /\ result_size' = result_size * RetryFactor
                  /\ dpc' = "retry"
                  /\ UNCHANGED returned
             ELSE /\ returned' = IF r.ret # Z_STREAM_END
                                 THEN Raised(RetryFailed)
                                 ELSE Returned(result_size - r.avail_out)
                  /\ dpc' = "done"
                  /\ UNCHANGED result_size
    /\ passes' = Append(passes, result_size)
    /\ UNCHANGED <<data, size, stream>>

\* ret = inflate(&strm2, Z_FINISH); ... if (ret != Z_STREAM_END) throw ...
DRetry ==
    /\ dpc = "retry"
    /\ LET r == inflate(stream, result_size) IN
          /\ ret' = r.ret
          /\ avail_out' = r.avail_out
          /\ returned' = IF r.ret # Z_STREAM_END
                         THEN Raised(RetryFailed)
                         ELSE Returned(result_size - r.avail_out)
    /\ passes' = Append(passes, result_size)
    /\ dpc' = "done"
    /\ UNCHANGED <<data, size, stream, result_size>>


\* decompress_gzip as one call: what the steps DEntry .. DRetry end with.
decompress_gzip(d, sz, s) ==
    IF sz = 0 THEN Returned(0)
    ELSE IF d = "null" THEN Raised(NullData)
    ELSE IF inflateInit2(s.init1) # Z_OK THEN Raised(InitFailed)
    ELSE LET first == inflate(s, estimated_size(sz)) IN
         IF NeedsRetry(first.ret, first.avail_out)
         THEN IF inflateInit2(s.init2) # Z_OK THEN Raised(RetryInitFailed)
              ELSE LET second == inflate(s, estimated_size(sz) * RetryFactor) IN
                   IF second.ret # Z_STREAM_END THEN Raised(RetryFailed)
                   ELSE Returned(estimated_size(sz) * RetryFactor - second.avail_out)
         ELSE IF first.ret # Z_STREAM_END THEN Raised(InflateFailed)
         ELSE Returned(estimated_size(sz) - first.avail_out)

(***************************************************************************)
(* The pixel type registry (band_decoder.hpp) as decode_pixel uses it, and  *)
(* decode_pixel.                                                           *)
(***************************************************************************)
\* parse_dtype: the byte width of a known type name; an unknown name raises.
Str_uint8 == <<"u", "i", "n", "t", "8">>
Str_uint16 == <<"u", "i", "n", "t", "1", "6">>
Str_float64 == <<"f", "l", "o", "a", "t", "6", "4">>
Str_bogus == <<"b", "o", "g", "u", "s">>
KnownTypes == {Str_uint8, Str_uint16, Str_float64}
TypeBytes(dtype) ==
    CASE dtype = Str_uint8 -> 1 [] dtype = Str_uint16 -> 2 [] OTHER -> 8

UnknownType == "Unknown dtype"

\* The value stored at element k of a band buffer.
Sample(k) == k + 1

\* size_t arithmetic.
SizeMod == 2 ^ SizeBits
SizeT(n) == n % SizeMod

\* Reading outside the buffer is undefined behaviour: the build returns
\* whatever lies there, or the process dies.
Value(v) == [tag |-> "value", v |-> v]
Crashed == [tag |-> "crashed"]
Garbage == {Value(0), Value(Sample(0)), Crashed}

\* get_pixel_value(data, offset, dtype): reads element `offset` of data; it is
\* given no length and validates nothing.
get_pixel_value(len, offset) ==
    IF offset < len THEN {Value(Sample(offset))} ELSE Garbage

\* BandDataType dtype = parse_dtype(dtype_str);
\* if (compressed) { decompressed = decompress_gzip(...); data = decompressed.data(); }
\* else data = band_data;
XPrepare ==
    /\ xpc = "entry"
    /\ IF pixel.dtype_str \notin KnownTypes
       THEN /\ xout' = Raised(UnknownType)
            /\ xpc' = "done"
            /\ UNCHANGED xdata
       ELSE IF pixel.compressed
       THEN LET r == decompress_gzip("ptr", pixel.band_size, pixel.stream) IN
            IF r.tag = "raised"
            THEN /\ xout' = r
                 /\ xpc' = "done"
                 /\ UNCHANGED xdata
            ELSE /\ xdata' = r.len \div TypeBytes(pixel.dtype_str)
                 /\ xpc' = "read"
                 /\ UNCHANGED xout
       ELSE /\ xdata' = pixel.band_size \div TypeBytes(pixel.dtype_str)
            /\ xpc' = "read"
            /\ UNCHANGED xout
    /\ UNCHANGED <<pixel, xreads>>

\* The offset of decode_pixel: static_cast<size_t>(pixel_y) * width + pixel_x.
PixelOffset(px) == SizeT(SizeT(px.pixel_y) * SizeT(px.width) + SizeT(px.pixel_x))

\* size_t offset = ...; return get_pixel_value(data, offset, dtype);
XRead ==
    /\ xpc = "read"
    /\ xreads' = xreads \cup {PixelOffset(pixel)}
    /\ xout' \in get_pixel_value(xdata, PixelOffset(pixel))
    /\ xpc' = "done"
    /\ UNCHANGED <<pixel, xdata>>

(***************************************************************************)
(* decode_band (band_decoder.cpp:112-136): one step per loop iteration.    *)
(***************************************************************************)
\* BandDataType dtype = parse_dtype(dtype_str);
\* if (compressed) { decompressed = decompress_gzip(...); data = decompressed.data(); }
\* else data = band_data;
\* size_t pixel_count = static_cast<size_t>(width) * height;
\* std::vector<double> result(pixel_count);
BPrepare ==
    /\ bpc = "entry"
    /\ IF band_call.dtype_str \notin KnownTypes
       THEN /\ bout' = Raised(UnknownType)
            /\ bpc' = "done"
            /\ UNCHANGED <<bdata, pixel_count>>
       ELSE LET r == decompress_gzip("ptr", band_call.band_size, band_call.stream) IN
            IF band_call.compressed /\ r.tag = "raised"
            THEN /\ bout' = r
                 /\ bpc' = "done"
                 /\ UNCHANGED <<bdata, pixel_count>>
            ELSE /\ bdata' = (IF band_call.compressed THEN r.len ELSE band_call.band_size)
                                \div TypeBytes(band_call.dtype_str)
                 /\ pixel_count' = SizeT(SizeT(band_call.width) * SizeT(band_call.height))
                 /\ bpc' = "loop"
                 /\ UNCHANGED bout
    /\ UNCHANGED <<band_call, bi, breads, band_result>>

\* for (size_t i = 0; i < pixel_count; i++) result[i] = get_pixel_value(data, i, dtype);
\* pixel_count is never compared with the size of the buffer.
BReadElement ==
    /\ bpc = "loop"
    /\ bi < pixel_count
    /\ breads' = breads \cup {bi}
    /\ \E v \in get_pixel_value(bdata, bi) :
          IF v = Crashed
          THEN /\ bout' = Crashed
               /\ bpc' = "done"
               /\ UNCHANGED <<bi, band_result>>
          ELSE /\ band_result' = Append(band_result, v.v)
               /\ bi' = bi + 1
               /\ UNCHANGED <<bpc, bout>>
    /\ UNCHANGED <<band_call, bdata, pixel_count>>

\* return result;
BReturn ==
    /\ bpc = "loop"
    /\ bi = pixel_count
    /\ bout' = [tag |-> "returned", result |-> band_result]
    /\ bpc' = "done"
    /\ UNCHANGED <<band_call, bdata, pixel_count, bi, breads, band_result>>

(***************************************************************************)
(* The descriptor parser (raquet_metadata.hpp).  A std::string is a        *)
(* sequence of one-character strings; positions are 0-based as in the      *)
(* code, and npos is -1.                                                   *)
(***************************************************************************)
npos == 0 - 1

Str_empty == <<>>

Key_compression == <<"c", "o", "m", "p", "r", "e", "s", "s", "i", "o", "n">>
Key_crs == <<"c", "r", "s">>
Key_tiling == <<"t", "i", "l", "i", "n", "g">>
Key_min_zoom == <<"m", "i", "n", "_", "z", "o", "o", "m">>
Key_max_zoom == <<"m", "a", "x", "_", "z", "o", "o", "m">>
Key_pixel_zoom == <<"p", "i", "x", "e", "l", "_", "z", "o", "o", "m">>
Key_num_blocks == <<"n", "u", "m", "_", "b", "l", "o", "c", "k", "s">>
Key_block_width == <<"b", "l", "o", "c", "k", "_", "w", "i", "d", "t", "h">>
Key_block_height == <<"b", "l", "o", "c", "k", "_", "h", "e", "i", "g", "h", "t">>
Key_scheme == <<"s", "c", "h", "e", "m", "e">>
Key_name == <<"n", "a", "m", "e">>
Key_type == <<"t", "y", "p", "e">>
Str_none == <<"n", "o", "n", "e">>
Str_quadbin == <<"q", "u", "a", "d", "b", "i", "n">>
Str_gzip == <<"g", "z", "i", "p">>
Str_bandsKey == <<"\"", "b", "a", "n", "d", "s", "\"", ":">>

\* json[pos]
At(s, pos) == s[pos + 1]

\* std::out_of_range, as the value of the expression that throws it.
OutOfRange == <<"std::out_of_range">>

\* s.substr(pos, n): throws when pos > s.size(), and is cut at the end of s.
Substr(s, pos, n) ==
    IF pos > Len(s) THEN OutOfRange
    ELSE SubSeq(s, pos + 1, IF pos + n > Len(s) THEN Len(s) ELSE pos + n)

SetMin(S) == CHOOSE m \in S : \A o \in S : m <= o

\* s.find(pat, from): the first position >= from where pat occurs, or npos.
Find(s, pat, from) ==
    LET hits == {p \in from..(Len(s) - Len(pat)) :
                    SubSeq(s, p + 1, p + Len(pat)) = pat}
    IN IF hits = {} THEN npos ELSE SetMin(hits)

\* "\"" + key + "\":"
SearchKey(key) == <<"\"">> \o key \o <<"\"", ":">>

\* while (pos < json.size() && json[pos] is one of ws) pos++;
RECURSIVE SkipChars(_, _, _)
SkipChars(s, pos, ws) ==
    IF pos < Len(s) /\ At(s, pos) \in ws THEN SkipChars(s, pos + 1, ws) ELSE pos

\* while (end < json.size() && json[end] is none of stops) end++;
RECURSIVE ScanTo(_, _, _)
ScanTo(s, end, stops) ==
    IF end < Len(s) /\ At(s, end) \notin stops THEN ScanTo(s, end + 1, stops) ELSE end

\* while (!val.empty() && (val.back() == ' ' || val.back() == '\t')) val.pop_back();
RECURSIVE TrimBack(_)
TrimBack(val) ==
    IF val # <<>> /\ val[Len(val)] \in {" ", "\t"}
    THEN TrimBack(SubSeq(val, 1, Len(val) - 1))
    ELSE val

extract_json_string(json, key) ==
    LET search == SearchKey(key)
        found == Find(json, search, 0)
        pos == SkipChars(json, found + Len(search), {" ", "\t"})
    IN IF found = npos THEN Str_empty
       ELSE IF pos >= Len(json) THEN Str_empty
       ELSE IF At(json, pos) = "\""
       THEN LET end == Find(json, <<"\"">>, pos + 1)
            IN IF end = npos THEN Str_empty
               ELSE Substr(json, pos + 1, end - (pos + 1))
       ELSE LET end == ScanTo(json, pos, {",", "}", "]"})
                val == Substr(json, pos, end - pos)
            IN IF val = OutOfRange THEN OutOfRange ELSE TrimBack(val)

(***************************************************************************)
(* std::stoi: leading white space, an optional sign, then decimal digits;  *)
(* what follows the digits is ignored.  It throws std::invalid_argument    *)
(* without a digit and std::out_of_range outside int.                      *)
(***************************************************************************)
INT_MAX == 2147483647
Digits == <<"0", "1", "2", "3", "4", "5", "6", "7", "8", "9">>
IsDigit(c) == \E d \in 1..10 : Digits[d] = c
DigitVal(c) == (CHOOSE d \in 1..10 : Digits[d] = c) - 1
SpaceChars == {" ", "\t", "\n", "\r", "\f"}

\* The magnitude of the digits from pos on, or -1 once it exceeds INT_MAX + 1
\* (INT_MAX + 1 itself is returned as -2: it is in range after a minus sign).
RECURSIVE Magnitude(_, _, _)
Magnitude(s, pos, acc) ==
    IF pos < Len(s) /\ IsDigit(At(s, pos))
    THEN LET d == DigitVal(At(s, pos)) IN
         IF acc < 0 THEN 0 - 1
         ELSE IF acc > INT_MAX \div 10 THEN 0 - 1
         ELSE IF acc = INT_MAX \div 10 /\ d = 8 THEN Magnitude(s, pos + 1, 0 - 2)
         ELSE IF acc = INT_MAX \div 10 /\ d > 8 THEN 0 - 1
         ELSE Magnitude(s, pos + 1, acc * 10 + d)
    ELSE acc

stoi(val) ==
    LET p0 == SkipChars(val, 0, SpaceChars)
        signed == p0 < Len(val) /\ At(val, p0) \in {"+", "-"}
        neg == signed /\ At(val, p0) = "-"
        p1 == IF signed THEN p0 + 1 ELSE p0
        mag == Magnitude(val, p1, 0)
    IN IF ~(p1 < Len(val) /\ IsDigit(At(val, p1)))
       THEN [ok |-> FALSE, what |-> "std::invalid_argument"]
       ELSE IF mag = 0 - 1 \/ (mag = 0 - 2 /\ ~neg)
       THEN [ok |-> FALSE, what |-> "std::out_of_range"]
       ELSE [ok |-> TRUE,
             value |-> IF mag = 0 - 2 THEN (0 - INT_MAX) - 1
                       ELSE IF neg THEN 0 - mag ELSE mag]

\* try { return std::stoi(val); } catch (...) { return default_val; }
extract_json_int(json, key, default_val) ==
    LET val == extract_json_string(json, key) IN
    IF val = OutOfRange THEN OutOfRange
    ELSE IF val = Str_empty THEN default_val
    ELSE IF stoi(val).ok THEN stoi(val).value ELSE default_val

\* The brace-matching loop of extract_json_object: the position after it.
RECURSIVE MatchBrace(_, _, _)
MatchBrace(json, pos, depth) ==
    IF pos < Len(json) /\ depth > 0
    THEN MatchBrace(json, pos + 1,
                    IF At(json, pos) = "{" THEN depth + 1
                    ELSE IF At(json, pos) = "}" THEN depth - 1
                    ELSE depth)
    ELSE pos

\* extract_json_object without the depth count: from the brace to the end.
extract_json_object_ToEnd(json, key) ==
    LET search == SearchKey(key)
        found == Find(json, search, 0)
        start == SkipChars(json, found + Len(search), {" ", "\t", "\n"})
    IN IF found = npos THEN Str_empty
       ELSE IF start >= Len(json) \/ At(json, start) # "{" THEN Str_empty
       ELSE Substr(json, start, Len(json) - start)

extract_json_object(json, key) ==
    LET search == SearchKey(key)
        found == Find(json, search, 0)
        start == SkipChars(json, found + Len(search), {" ", "\t", "\n"})
    IN IF found = npos THEN Str_empty
       ELSE IF start >= Len(json) \/ At(json, start) # "{" THEN Str_empty
       ELSE Substr(json, start, MatchBrace(json, start + 1, 1) - start)

\* The loop of parse_bands with a break where a band object is dropped.
RECURSIVE ParseBandObjects_StopAtDropped(_, _, _)
ParseBandObjects_StopAtDropped(bands_str, pos, bands) ==
    IF pos < Len(bands_str)
    THEN LET obj_start == Find(bands_str, <<"{">>, pos)
             obj_end == Find(bands_str, <<"}">>, obj_start)
             band_obj == Substr(bands_str, obj_start, obj_end - obj_start + 1)
             name == extract_json_string(band_obj, Key_name)
             type == extract_json_string(band_obj, Key_type)
         IN IF obj_start = npos THEN bands
            ELSE IF obj_end = npos THEN bands
            ELSE IF name # Str_empty /\ type # Str_empty
            THEN ParseBandObjects_StopAtDropped(bands_str, obj_end + 1,
                                                Append(bands, <<name, type>>))
            ELSE bands
    ELSE bands

\* The while loop of parse_bands over bands_str from pos on.
RECURSIVE ParseBandObjects(_, _, _)
ParseBandObjects(bands_str, pos, bands) ==
    IF pos < Len(bands_str)
    THEN LET obj_start == Find(bands_str, <<"{">>, pos)
             obj_end == Find(bands_str, <<"}">>, obj_start)
             band_obj == Substr(bands_str, obj_start, obj_end - obj_start + 1)
             name == extract_json_string(band_obj, Key_name)
             type == extract_json_string(band_obj, Key_type)
         IN IF obj_start = npos THEN bands
            ELSE IF obj_end = npos THEN bands
            ELSE ParseBandObjects(bands_str, obj_end + 1,
                    IF name # Str_empty /\ type # Str_empty
                    THEN Append(bands, <<name, type>>)
                    ELSE bands)
    ELSE bands

parse_bands(json) ==
    LET bands_pos == Find(json, Str_bandsKey, 0)
        arr_start == Find(json, <<"[">>, bands_pos)
        arr_end == Find(json, <<"]">>, arr_start)
    IN IF bands_pos = npos THEN <<>>
       ELSE IF arr_start = npos THEN <<>>
       ELSE IF arr_end = npos THEN <<>>
       ELSE ParseBandObjects(Substr(json, arr_start + 1, arr_end - arr_start - 1),
                             0, <<>>)

parse_metadata(json) ==
    LET compression == extract_json_string(json, Key_compression)
        tiling == extract_json_object(json, Key_tiling)
    IN [compression |-> IF compression = Str_empty THEN Str_none ELSE compression,
        crs |-> extract_json_string(json, Key_crs),
        min_zoom |-> IF tiling # Str_empty
                     THEN extract_json_int(tiling, Key_min_zoom, 0) ELSE 0,
        max_zoom |-> IF tiling # Str_empty
                     THEN extract_json_int(tiling, Key_max_zoom, 26) ELSE 26,
        pixel_zoom |-> IF tiling # Str_empty
                       THEN extract_json_int(tiling, Key_pixel_zoom, 0) ELSE 0,
        num_blocks |-> IF tiling # Str_empty
                       THEN extract_json_int(tiling, Key_num_blocks, 0) ELSE 0,
        block_width |-> IF tiling # Str_empty
                        THEN extract_json_int(tiling, Key_block_width, 256) ELSE 256,
        block_height |-> IF tiling # Str_empty
                         THEN extract_json_int(tiling, Key_block_height, 256) ELSE 256,
        scheme |-> IF tiling # Str_empty
                   THEN extract_json_string(tiling, Key_scheme) ELSE Str_quadbin,
        bands |-> parse_bands(json)]

(***************************************************************************)
(* The descriptors parse_metadata is called with: free-form strings, and   *)
(* objects with an optional section before and after an optional tiling    *)
(* section.                                                                *)
(***************************************************************************)
\* Fields of a tiling object: parseable, unparseable, empty, partly numeric,
\* a nested object, and a string that holds a brace.
TilingFields ==
    {<<"\"", "m", "i", "n", "_", "z", "o", "o", "m", "\"", ":", "3">>,
     <<"\"", "m", "a", "x", "_", "z", "o", "o", "m", "\"", ":", "x">>,
     <<"\"", "m", "a", "x", "_", "z", "o", "o", "m", "\"", ":", "1", "0">>,
     <<"\"", "b", "l", "o", "c", "k", "_", "w", "i", "d", "t", "h", "\"", ":", "5", "1", "2">>,
     <<"\"", "b", "l", "o", "c", "k", "_", "h", "e", "i", "g", "h", "t", "\"", ":", " ", "1", "2", "a", "b">>,
     <<"\"", "s", "c", "h", "e", "m", "e", "\"", ":", "\"", "h", "3", "\"">>,
     <<"\"", "n", "u", "m", "_", "b", "l", "o", "c", "k", "s", "\"", ":">>,
     <<"\"", "p", "i", "x", "e", "l", "_", "z", "o", "o", "m", "\"", ":", "-", "2">>,
     <<"\"", "o", "\"", ":", "{", "\"", "n", "u", "m", "_", "b", "l", "o", "c", "k", "s", "\"", ":", "4", "}">>,
     <<"\"", "s", "c", "h", "e", "m", "e", "\"", ":", "\"", "{", "\"">>}

\* What may stand before the tiling section (a key of the tiling object at top level too).
PreSections ==
    {<<>>,
     <<"\"", "c", "o", "m", "p", "r", "e", "s", "s", "i", "o", "n", "\"", ":", "\"", "g", "z", "i", "p", "\"">>,
     <<"\"", "m", "i", "n", "_", "z", "o", "o", "m", "\"", ":", "7">>,
     <<"\"", "s", "c", "h", "e", "m", "e", "\"", ":", "\"", "h", "3", "\"">>}

\* What may stand after the tiling section (a sibling object and a bands list too).
PostSections ==
    {<<>>,
     <<"\"", "b", "a", "n", "d", "s", "\"", ":", "[", "{", "\"", "n", "a", "m", "e", "\"", ":", "\"", "a", "\"", ",", "\"", "t", "y", "p", "e", "\"", ":", "\"", "u", "i", "n", "t", "8", "\"", "}", "]">>,
     <<"\"", "o", "t", "h", "e", "r", "\"", ":", "{", "\"", "m", "a", "x", "_", "z", "o", "o", "m", "\"", ":", "9", "}">>,
     <<"\"", "c", "r", "s", "\"", ":", "\"", "E", "P", "S", "G", ":", "3", "8", "5", "7", "\"">>}

RawAlphabet == {"{", "\"", ":", "a"}

RECURSIVE JoinWith(_, _)
JoinWith(parts, sep) ==
    IF parts = <<>> THEN <<>>
    ELSE IF Len(parts) = 1 THEN parts[1]
    ELSE parts[1] \o sep \o JoinWith(Tail(parts), sep)

\* A tiling section: none, a scalar in place of the object, or an object.
TilingSections ==
    {<<>>, SearchKey(Key_tiling) \o <<"5">>}
      \cup {SearchKey(Key_tiling) \o <<"{">> \o JoinWith(fs, <<",">>) \o <<"}">> :
              fs \in UNION {[1..n -> TilingFields] : n \in 0..MaxTilingFields}}

\* Band objects: complete, without a type, with an empty name, with the type
\* first, and with a nested object.
BandObjects ==
    {<<"{", "\"", "n", "a", "m", "e", "\"", ":", "\"", "a", "\"", ",", "\"",
       "t", "y", "p", "e", "\"", ":", "\"", "u", "i", "n", "t", "8", "\"",
       "}">>,
     <<"{", "\"", "n", "a", "m", "e", "\"", ":", "\"", "b", "\"", "}">>,
     <<"{", "\"", "n", "a", "m", "e", "\"", ":", "\"", "\"", ",", "\"", "t",
       "y", "p", "e", "\"", ":", "\"", "x", "\"", "}">>,
     <<"{", "\"", "t", "y", "p", "e", "\"", ":", "\"", "f", "\"", ",", "\"",
       "n", "a", "m", "e", "\"", ":", "\"", "c", "\"", "}">>,
     <<"{", "\"", "n", "a", "m", "e", "\"", ":", "\"", "d", "\"", ",", "\"",
       "o", "\"", ":", "{", "\"", "t", "y", "p", "e", "\"", ":", "\"", "t",
       "\"", "}", ",", "\"", "t", "y", "p", "e", "\"", ":", "\"", "u", "\"",
       "}">>}

\* A bands section: the key and a list of band objects, closed or not.
BandsSections ==
    {Str_bandsKey \o <<"[">> \o JoinWith(os, <<",">>) \o close :
        os \in UNION {[1..n -> BandObjects] : n \in 0..MaxBandObjects},
        close \in {<<"]">>, <<>>}}

NonEmpty(parts) == SelectSeq(parts, LAMBDA x : x # <<>>)

Descriptors ==
    UNION {[1..n -> RawAlphabet] : n \in 0..MaxRawLen}
      \cup {<<"{">> \o JoinWith(NonEmpty(<<a, t, b>>), <<",">>) \o <<"}">> :
              a \in PreSections, t \in TilingSections, b \in PostSections}
      \cup {<<"{">> \o bs \o <<"}">> : bs \in BandsSections}

NoMeta == [tag |-> "none"]

\* RaquetMetadata meta = parse_metadata(json);
PParse ==
    /\ ppc = "call"
    /\ meta' = parse_metadata(descriptor)
    /\ ppc' = "done"
    /\ UNCHANGED descriptor


(***************************************************************************)
(* Doubles: a number or not-a-number.  Only integers occur as numbers in   *)
(* the model; a mean is the exact ratio and a standard deviation the root  *)
(* of the exact population variance.                                       *)
(***************************************************************************)
Num(n) == [nan |-> FALSE, v |-> n]
NaN == [nan |-> TRUE, v |-> 0]
\* a == b on doubles: never true of a not-a-number.
DoubleEq(a, b) == ~a.nan /\ ~b.nan /\ a.v = b.v
Ratio(n, d) == [nan |-> FALSE, num |-> n, den |-> d]
RootOfRatio(n, d) == [nan |-> FALSE, sqrt_num |-> n, sqrt_den |-> d]

(***************************************************************************)
(* compute_band_stats, the streaming statistics engine.  A band buffer is  *)
(* a sequence of cells, one sample each: raw is the buffer as passed,      *)
(* plain what it decompresses to when stream is a valid gzip stream.       *)
(***************************************************************************)
ShortBuffer == "Band data too small"

\* The value of a cell under a pixel type: the integer types hold no
\* not-a-number.
DecodeCell(cell, dtype) ==
    IF cell.nan /\ dtype # Str_float64 THEN Num(255) ELSE cell

\* The nodata filter: a not-a-number nodata matches every not-a-number
\* sample, any other nodata the samples equal to it.
NodataMatch(v, nodata) == IF nodata.nan THEN v.nan ELSE DoubleEq(v, nodata)

RECURSIVE SumOf(_)
SumOf(vs) == IF vs = <<>> THEN 0 ELSE vs[1].v + SumOf(Tail(vs))
RECURSIVE SumOfSquares(_)
SumOfSquares(vs) == IF vs = <<>> THEN 0 ELSE vs[1].v * vs[1].v + SumOfSquares(Tail(vs))

MinOf(vs) ==
    LET ns == {vs[k].v : k \in {k \in 1..Len(vs) : ~vs[k].nan}} IN
    IF ns = {} THEN NaN ELSE Num(CHOOSE m \in ns : \A o \in ns : m <= o)
MaxOf(vs) ==
    LET ns == {vs[k].v : k \in {k \in 1..Len(vs) : ~vs[k].nan}} IN
    IF ns = {} THEN NaN ELSE Num(CHOOSE m \in ns : \A o \in ns : m >= o)

\* The BandStats of the samples that passed the filter.
StatsOf(vs) ==
    LET n == Len(vs)
        anyNaN == \E k \in 1..n : vs[k].nan
    IN IF n = 0
       THEN [count |-> 0, sum |-> Num(0), mean |-> NaN, min |-> NaN, max |-> NaN,
             stddev |-> NaN]
       ELSE IF anyNaN
       THEN [count |-> n, sum |-> NaN, mean |-> NaN, min |-> MinOf(vs),
             max |-> MaxOf(vs), stddev |-> NaN]
       ELSE [count |-> n, sum |-> Num(SumOf(vs)), mean |-> Ratio(SumOf(vs), n),
             min |-> MinOf(vs), max |-> MaxOf(vs),
             stddev |-> RootOfRatio(n * SumOfSquares(vs) - SumOf(vs) * SumOf(vs), n * n)]

Computed(st) == [tag |-> "stats", stats |-> st]

compute_band_stats(band, cfg) ==
    IF cfg.dtype \notin KnownTypes THEN Raised(UnknownType)
    ELSE LET unzipped == decompress_gzip("ptr", Len(band.raw), band.stream)
             cells == IF cfg.compressed THEN band.plain ELSE band.raw
             n == cfg.width * cfg.height
             samples == [k \in 1..n |-> DecodeCell(cells[k], cfg.dtype)]
         IN IF cfg.compressed /\ unzipped.tag = "raised" THEN unzipped
            ELSE IF Len(cells) < n THEN Raised(ShortBuffer)
            ELSE Computed(StatsOf(SelectSeq(samples,
                     LAMBDA v : ~(cfg.has_nodata /\ NodataMatch(v, cfg.nodata)))))

(***************************************************************************)
(* The per-band nodata list of the metadata (meta.band_info), index-       *)
(* aligned with the band list: the "nodata" field of each band object kept.*)
(***************************************************************************)
Key_nodata == <<"n", "o", "d", "a", "t", "a">>
Str_NaN == <<"N", "a", "N">>

BandInfoOf(band_obj) ==
    LET val == extract_json_string(band_obj, Key_nodata) IN
    IF val = Str_NaN THEN [has_nodata |-> TRUE, nodata |-> NaN]
    ELSE IF val # Str_empty /\ stoi(val).ok
    THEN [has_nodata |-> TRUE, nodata |-> Num(stoi(val).value)]
    ELSE [has_nodata |-> FALSE, nodata |-> Num(0)]

RECURSIVE ParseBandInfoObjects(_, _, _)
ParseBandInfoObjects(bands_str, pos, infos) ==
    IF pos < Len(bands_str)
    THEN LET obj_start == Find(bands_str, <<"{">>, pos)
             obj_end == Find(bands_str, <<"}">>, obj_start)
             band_obj == Substr(bands_str, obj_start, obj_end - obj_start + 1)
             name == extract_json_string(band_obj, Key_name)
             type == extract_json_string(band_obj, Key_type)
         IN IF obj_start = npos THEN infos
            ELSE IF obj_end = npos THEN infos
            ELSE ParseBandInfoObjects(bands_str, obj_end + 1,
                    IF name # Str_empty /\ type # Str_empty
                    THEN Append(infos, BandInfoOf(band_obj))
                    ELSE infos)
    ELSE infos

parse_band_info(json) ==
    LET bands_pos == Find(json, Str_bandsKey, 0)
        arr_start == Find(json, <<"[">>, bands_pos)
        arr_end == Find(json, <<"]">>, arr_start)
    IN IF bands_pos = npos THEN <<>>
       ELSE IF arr_start = npos THEN <<>>
       ELSE IF arr_end = npos THEN <<>>
       ELSE ParseBandInfoObjects(Substr(json, arr_start + 1, arr_end - arr_start - 1),
                                 0, <<>>)

(***************************************************************************)
(* The four ST_RasterSummaryStats overloads (st_raster_stats.cpp): one     *)
(* action each, a step of which is one iteration of the loop over the rows.*)
(***************************************************************************)
BandIndexOutOfRange == "Band index out of range"

\* The C++ type of each exception.
ExceptionType(what) ==
    IF what = BandIndexOutOfRange THEN "std::invalid_argument"
    ELSE "std::runtime_error"

\* A handler that catches std::runtime_error only.
CaughtRuntimeErrorOnly(what) == ExceptionType(what) = "std::runtime_error"

\* A loop without a handler.
CaughtNothing(what) == FALSE

\* catch (const std::exception &e): both exception types derive from it.
CaughtByHandler(what) ==
    ExceptionType(what) \in {"std::runtime_error", "std::invalid_argument"}

NoCall == [tag |-> "none"]
NoException == [tag |-> "none"]
Unset == [tag |-> "unset"]

\* What one iteration does to row i: the validity bit, the six fields
\* written if any, the arguments compute_band_stats was called with if it
\* was, and the exception that left the function if one did.
NullRow(call) ==
    [valid |-> FALSE, wrote |-> FALSE, entry |-> Unset, call |-> call,
     escaped |-> NoException]

\* count_data[i] = stats.count; ... stddev_data[i] = stats.stddev;
WriteStats(st) ==
    [count |-> st.count, sum |-> st.sum, mean |-> st.mean, min |-> st.min,
     max |-> st.max, stddev |-> st.stddev]

\* try { body } catch (const std::exception &e) { result_validity.SetInvalid(i); }
TryCatch(call, outcome) ==
    IF outcome.tag = "raised"
    THEN IF CaughtByHandler(outcome.what)
         THEN NullRow(call)
         ELSE [valid |-> TRUE, wrote |-> FALSE, entry |-> Unset, call |-> call,
               escaped |-> outcome]
    ELSE [valid |-> TRUE, wrote |-> TRUE, entry |-> WriteStats(outcome.stats),
          call |-> call, escaped |-> NoException]

\* bool has_nodata: set only for a nodata that is a number.
HasNodata_NumbersOnly(row) == ~row.nodata.null /\ ~row.nodata.v.nan

\* bool has_nodata = nodata_validity.RowIsValid(i);
HasNodata(row) == ~row.nodata.null

\* The arguments of compute_band_stats in the (band, dtype, width, height,
\* compression, nodata) overload.
StatsConfig(row) ==
    [dtype |-> row.dtype, width |-> row.width, height |-> row.height,
     compressed |-> (row.compression = Str_gzip),
     has_nodata |-> HasNodata(row), nodata |-> row.nodata.v]

\* ... in the overload without nodata: false, 0.0
StatsSimpleConfig(row) ==
    [dtype |-> row.dtype, width |-> row.width, height |-> row.height,
     compressed |-> (row.compression = Str_gzip),
     has_nodata |-> FALSE, nodata |-> Num(0)]

\* The metadata of a row as the metadata overloads see it.
ParsedMeta(json) == [m |-> parse_metadata(json), band_info |-> parse_band_info(json)]

\* StatsMetadataConfig with the band's name taken for its type and the block
\* height for the width.
StatsMetadataConfig_Mixed(pm) ==
    LET has_nodata == pm.band_info # <<>> /\ pm.band_info[1].has_nodata IN
    [dtype |-> IF pm.m.bands = <<>> THEN Str_uint8 ELSE pm.m.bands[1][1],
     width |-> pm.m.block_height, height |-> pm.m.block_width,
     compressed |-> (pm.m.compression = Str_gzip),
     has_nodata |-> has_nodata,
     nodata |-> IF has_nodata THEN pm.band_info[1].nodata ELSE Num(0)]

\* ... in the (band, metadata) overload.
StatsMetadataConfig(pm) ==
    LET has_nodata == pm.band_info # <<>> /\ pm.band_info[1].has_nodata IN
    [dtype |-> IF pm.m.bands = <<>> THEN Str_uint8 ELSE pm.m.bands[1][2],
     width |-> pm.m.block_width, height |-> pm.m.block_height,
     compressed |-> (pm.m.compression = Str_gzip),
     has_nodata |-> has_nodata,
     nodata |-> IF has_nodata THEN pm.band_info[1].nodata ELSE Num(0)]

\* RaquetMetadata::get_band_type(int band_index)
get_band_type(m, band_index) ==
    IF band_index < 0 \/ band_index >= Len(m.bands)
    THEN Raised(BandIndexOutOfRange)
    ELSE [tag |-> "returned", type |-> m.bands[band_index + 1][2]]

\* ... in the (band, metadata, band_index) overload, once get_band_type
\* has returned.
StatsMetadataBandConfig(pm, band_idx) ==
    LET has_nodata == band_idx < Len(pm.band_info)
                        /\ pm.band_info[band_idx + 1].has_nodata IN
    [dtype |-> get_band_type(pm.m, band_idx).type,
     width |-> pm.m.block_width, height |-> pm.m.block_height,
     compressed |-> (pm.m.compression = Str_gzip),
     has_nodata |-> has_nodata,
     nodata |-> IF has_nodata THEN pm.band_info[band_idx + 1].nodata ELSE Num(0)]

\* One iteration of STRasterSummaryStatsFunction.
Row_Stats(row) ==
    IF row.band.null THEN NullRow(NoCall)
    ELSE IF Len(row.band.raw) = 0 THEN NullRow(NoCall)
    ELSE TryCatch(StatsConfig(row), compute_band_stats(row.band, StatsConfig(row)))

\* One iteration of STRasterSummaryStatsSimpleFunction.
Row_StatsSimple(row) ==
    IF row.band.null THEN NullRow(NoCall)
    ELSE IF Len(row.band.raw) = 0 THEN NullRow(NoCall)
    ELSE TryCatch(StatsSimpleConfig(row),
                  compute_band_stats(row.band, StatsSimpleConfig(row)))

\* One iteration of STRasterSummaryStatsMetadataFunction.
Row_StatsMetadata(row) ==
    IF row.band.null THEN NullRow(NoCall)
    ELSE IF Len(row.band.raw) = 0 THEN NullRow(NoCall)
    ELSE LET cfg == StatsMetadataConfig(ParsedMeta(row.metadata)) IN
         TryCatch(cfg, compute_band_stats(row.band, cfg))

\* One iteration of STRasterSummaryStatsMetadataBandFunction.
Row_StatsMetadataBand(row) ==
    IF row.band.null THEN NullRow(NoCall)
    ELSE IF Len(row.band.raw) = 0 \/ row.band_idx < 0 THEN NullRow(NoCall)
    ELSE LET pm == ParsedMeta(row.metadata)
             dtype == get_band_type(pm.m, row.band_idx)
             cfg == StatsMetadataBandConfig(pm, row.band_idx)
         IN IF dtype.tag = "raised" THEN TryCatch(NoCall, dtype)
            ELSE TryCatch(cfg, compute_band_stats(row.band, cfg))

\* The effect of one iteration on the vectors and on the loop.
Commit(o) ==
    /\ result_validity' =
          IF o.valid THEN result_validity
          ELSE [result_validity EXCEPT ![i + 1] = FALSE]
    /\ struct_entries' =
          IF o.wrote THEN [struct_entries EXCEPT ![i + 1] = o.entry]
          ELSE struct_entries
    /\ calls' = [calls EXCEPT ![i + 1] = o.call]
    /\ failed' = o.escaped
    /\ IF o.escaped = NoException
       THEN i' = i + 1 /\ rpc' = "loop"
       ELSE i' = i /\ rpc' = "failed"
    /\ UNCHANGED <<fn, args, field_validity>>

STRasterSummaryStatsFunction ==
    /\ rpc = "loop" /\ fn = "Stats" /\ i < Len(args)
    /\ Commit(Row_Stats(args[i + 1]))

STRasterSummaryStatsSimpleFunction ==
    /\ rpc = "loop" /\ fn = "StatsSimple" /\ i < Len(args)
    /\ Commit(Row_StatsSimple(args[i + 1]))

STRasterSummaryStatsMetadataFunction ==
    /\ rpc = "loop" /\ fn = "StatsMetadata" /\ i < Len(args)
    /\ Commit(Row_StatsMetadata(args[i + 1]))

STRasterSummaryStatsMetadataBandFunction ==
    /\ rpc = "loop" /\ fn = "StatsMetadataBand" /\ i < Len(args)
    /\ Commit(Row_StatsMetadataBand(args[i + 1]))

\* result.SetVectorType(VectorType::FLAT_VECTOR);
SetVectorType ==
    /\ rpc = "loop" /\ i = Len(args)
    /\ rpc' = "done"
    /\ UNCHANGED <<fn, args, i, result_validity, field_validity, struct_entries,
                   calls, failed>>

(***************************************************************************)
(* The batches the overloads are called with.                              *)
(***************************************************************************)
SampleCells == {Num(0), Num(5), NaN}

NotGzip == [kind |-> "corrupt", outLen |-> 0, init1 |-> TRUE, init2 |-> TRUE]
GzipOf(cells) ==
    [kind |-> "valid", outLen |-> Len(cells), init1 |-> TRUE, init2 |-> TRUE]

NullBand == [null |-> TRUE, raw |-> <<>>, plain |-> <<>>, stream |-> NotGzip]
EmptyBand == [null |-> FALSE, raw |-> <<>>, plain |-> <<>>, stream |-> NotGzip]
RawBand(cells) == [null |-> FALSE, raw |-> cells, plain |-> <<>>, stream |-> NotGzip]
\* A gzip stream of `cells`; as raw bytes it reads as some other cells.
GzipBand(cells) ==
    [null |-> FALSE, raw |-> [k \in 1..Len(cells) |-> Num(5)], plain |-> cells,
     stream |-> GzipOf(cells)]

ZeroFive == [k \in 1..MaxSamples |-> IF k = 1 THEN Num(0) ELSE Num(5)]

Bands ==
    {NullBand, EmptyBand, GzipBand(ZeroFive)}
      \cup {RawBand(cells) : cells \in [1..MaxSamples -> SampleCells]}

\* The bands of the rows whose configuration is what varies.
FewBands ==
    {NullBand, EmptyBand, GzipBand(ZeroFive), RawBand(ZeroFive),
     RawBand([k \in 1..MaxSamples |-> Num(0)]),
     RawBand([k \in 1..MaxSamples |-> IF k = 1 THEN NaN ELSE Num(0)])}

Nodatas ==
    {[null |-> TRUE, v |-> Num(0)], [null |-> FALSE, v |-> Num(0)],
     [null |-> FALSE, v |-> NaN]}

\* {"compression":"gzip","tiling":{"block_width":2,"block_height":1},"bands":[{"name":"a","type":"float64","nodata":0},{"name":"b","type":"uint8"}]}
Desc_GzipTwoBands ==
    <<"{", "\"", "c", "o", "m", "p", "r", "e", "s", "s", "i", "o", "n",
      "\"", ":", "\"", "g", "z", "i", "p", "\"", ",", "\"", "t", "i", "l",
      "i", "n", "g", "\"", ":", "{", "\"", "b", "l", "o", "c", "k", "_",
      "w", "i", "d", "t", "h", "\"", ":", "2", ",", "\"", "b", "l", "o",
      "c", "k", "_", "h", "e", "i", "g", "h", "t", "\"", ":", "1", "}",
      ",", "\"", "b", "a", "n", "d", "s", "\"", ":", "[", "{", "\"", "n",
      "a", "m", "e", "\"", ":", "\"", "a", "\"", ",", "\"", "t", "y", "p",
      "e", "\"", ":", "\"", "f", "l", "o", "a", "t", "6", "4", "\"", ",",
      "\"", "n", "o", "d", "a", "t", "a", "\"", ":", "0", "}", ",", "{",
      "\"", "n", "a", "m", "e", "\"", ":", "\"", "b", "\"", ",", "\"", "t",
      "y", "p", "e", "\"", ":", "\"", "u", "i", "n", "t", "8", "\"", "}",
      "]", "}">>

\* {"tiling":{"block_width":2,"block_height":1},"bands":[{"name":"a","type":"float64","nodata":NaN},{"name":"b","type":"bogus","nodata":5}]}
Desc_NaNNodata ==
    <<"{", "\"", "t", "i", "l", "i", "n", "g", "\"", ":", "{", "\"", "b",
      "l", "o", "c", "k", "_", "w", "i", "d", "t", "h", "\"", ":", "2",
      ",", "\"", "b", "l", "o", "c", "k", "_", "h", "e", "i", "g", "h",
      "t", "\"", ":", "1", "}", ",", "\"", "b", "a", "n", "d", "s", "\"",
      ":", "[", "{", "\"", "n", "a", "m", "e", "\"", ":", "\"", "a", "\"",
      ",", "\"", "t", "y", "p", "e", "\"", ":", "\"", "f", "l", "o", "a",
      "t", "6", "4", "\"", ",", "\"", "n", "o", "d", "a", "t", "a", "\"",
      ":", "N", "a", "N", "}", ",", "{", "\"", "n", "a", "m", "e", "\"",
      ":", "\"", "b", "\"", ",", "\"", "t", "y", "p", "e", "\"", ":", "\"",
      "b", "o", "g", "u", "s", "\"", ",", "\"", "n", "o", "d", "a", "t",
      "a", "\"", ":", "5", "}", "]", "}">>

\* {"tiling":{"block_width":2,"block_height":1}}
Desc_NoBands ==
    <<"{", "\"", "t", "i", "l", "i", "n", "g", "\"", ":", "{", "\"", "b",
      "l", "o", "c", "k", "_", "w", "i", "d", "t", "h", "\"", ":", "2",
      ",", "\"", "b", "l", "o", "c", "k", "_", "h", "e", "i", "g", "h",
      "t", "\"", ":", "1", "}", "}">>

\* {}
Desc_Defaults ==
    <<"{", "}">>

\* {"tiling":{"block_width":1,"block_height":2},"bands":[{"name":"a","type":"uint8"}]}
Desc_Tall ==
    <<"{", "\"", "t", "i", "l", "i", "n", "g", "\"", ":", "{", "\"", "b",
      "l", "o", "c", "k", "_", "w", "i", "d", "t", "h", "\"", ":", "1",
      ",", "\"", "b", "l", "o", "c", "k", "_", "h", "e", "i", "g", "h",
      "t", "\"", ":", "2", "}", ",", "\"", "b", "a", "n", "d", "s", "\"",
      ":", "[", "{", "\"", "n", "a", "m", "e", "\"", ":", "\"", "a", "\"",
      ",", "\"", "t", "y", "p", "e", "\"", ":", "\"", "u", "i", "n", "t",
      "8", "\"", "}", "]", "}">>

MetaDescriptors ==
    {Desc_GzipTwoBands, Desc_NaNNodata, Desc_NoBands, Desc_Defaults, Desc_Tall}

\* The rows of each overload: every band under the configurations that
\* compute, and a few bands under every configuration.
TestRows(f) ==
    CASE f = "Stats" ->
           {[band |-> b, dtype |-> Str_float64, width |-> MaxSamples, height |-> 1,
             compression |-> c, nodata |-> nd] :
               b \in Bands, c \in {Str_none, Str_gzip}, nd \in Nodatas}
             \cup
           {[band |-> b, dtype |-> t, width |-> w, height |-> 1, compression |-> c,
             nodata |-> nd] :
               b \in FewBands, t \in {Str_float64, Str_bogus},
               w \in {MaxSamples, MaxSamples + 1}, c \in {Str_none, Str_gzip},
               nd \in Nodatas}
      [] f = "StatsSimple" ->
           {[band |-> b, dtype |-> Str_float64, width |-> MaxSamples, height |-> 1,
             compression |-> c] :
               b \in Bands, c \in {Str_none, Str_gzip}}
             \cup
           {[band |-> b, dtype |-> t, width |-> w, height |-> 1, compression |-> c] :
               b \in FewBands, t \in {Str_float64, Str_bogus},
               w \in {MaxSamples, MaxSamples + 1}, c \in {Str_none, Str_gzip}}
      [] f = "StatsMetadata" ->
           {[band |-> b, metadata |-> d] : b \in FewBands, d \in MetaDescriptors}
      [] OTHER ->
           {[band |-> b, metadata |-> d, band_idx |-> x] :
               b \in FewBands, d \in MetaDescriptors, x \in (0 - 1)..2}

\* The rows that share a batch with a test row: one that computes and one
\* whose computation raises (its band is no gzip stream).
NeighbourRows(f) ==
    CASE f = "Stats" ->
           {[band |-> b, dtype |-> Str_float64, width |-> 1, height |-> 1,
             compression |-> Str_gzip, nodata |-> [null |-> TRUE, v |-> Num(0)]] :
               b \in {RawBand(ZeroFive), GzipBand(ZeroFive)}}
      [] f = "StatsSimple" ->
           {[band |-> b, dtype |-> Str_float64, width |-> 1, height |-> 1,
             compression |-> Str_gzip] :
               b \in {RawBand(ZeroFive), GzipBand(ZeroFive)}}
      [] f = "StatsMetadata" ->
           {[band |-> b, metadata |-> Desc_GzipTwoBands] :
               b \in {RawBand(ZeroFive), GzipBand(ZeroFive)}}
      [] OTHER ->
           {[band |-> b, metadata |-> Desc_GzipTwoBands, band_idx |-> 0] :
               b \in {RawBand(ZeroFive), GzipBand(ZeroFive)}}

InsertAt(seq, k, x) == SubSeq(seq, 1, k) \o <<x>> \o SubSeq(seq, k + 1, Len(seq))

Batches(f) ==
    UNION {{InsertAt(ns, k, t) : t \in TestRows(f), k \in 0..Len(ns)} :
              ns \in UNION {[1..n -> NeighbourRows(f)] : n \in 0..MaxNeighbours}}

Overloads == {"Stats", "StatsSimple", "StatsMetadata", "StatsMetadataBand"}
AllFields == {"count", "sum", "mean", "min", "max", "stddev"}

(***************************************************************************)
(* The specifications: one per component, the others idle.                 *)
(***************************************************************************)
PIdle == ppc = "idle" /\ descriptor = <<>> /\ meta = NoMeta
RIdle ==
    /\ rpc = "idle" /\ fn = "none" /\ args = <<>> /\ i = 0
    /\ result_validity = <<>> /\ field_validity = <<>> /\ struct_entries = <<>>
    /\ calls = <<>> /\ failed = NoException
BIdle ==
    /\ bpc = "idle" /\ band_call = [tag |-> "none"] /\ bdata = 0 /\ pixel_count = 0
    /\ bi = 0 /\ breads = {} /\ band_result = <<>> /\ bout = Running
XIdle ==
    /\ xpc = "idle" /\ pixel = [tag |-> "none"] /\ xdata = 0 /\ xreads = {}
    /\ xout = Running
DIdle ==
    /\ dpc = "idle" /\ data = "null" /\ size = 0 /\ stream = [kind |-> "none"]
    /\ result_size = 0 /\ ret = Z_OK /\ avail_out = 0 /\ passes = <<>>
    /\ returned = Running

\* The plain-text lengths tried for an input of size sz: around the first
\* buffer's size and around the retry's.
OutLens(sz) ==
    LET e == estimated_size(sz) IN
    {0, 1, e - 1, e, e + 1, RetryFactor * e - 1, RetryFactor * e}
      \cup {RetryFactor * e + k : k \in 1..MaxExcess}

DInitState ==
    /\ dpc = "entry"
    /\ data \in {"null", "ptr"}
    /\ size \in 0..MaxSize
    /\ stream \in {[kind |-> k, outLen |-> n, init1 |-> a, init2 |-> b] :
                     k \in StreamKinds, n \in OutLens(size),
                     a \in BOOLEAN, b \in BOOLEAN}
    /\ result_size = 0
    /\ ret = Z_OK
    /\ avail_out = 0
    /\ passes = <<>>
    /\ returned = Running
    /\ PIdle /\ XIdle /\ RIdle /\ BIdle

DNext ==
    \/ DEntry /\ UNCHANGED <<pvars, xvars, rvars, bvars>>
    \/ DInit /\ UNCHANGED <<pvars, xvars, rvars, bvars>>
    \/ DInflate /\ UNCHANGED <<pvars, xvars, rvars, bvars>>
    \/ DCheck /\ UNCHANGED <<pvars, xvars, rvars, bvars>>
    \/ DRetry /\ UNCHANGED <<pvars, xvars, rvars, bvars>>

DecompressSpec == DInitState /\ [][DNext]_vars /\ WF_vars(DNext)

PInitState ==
    /\ ppc = "call" /\ descriptor \in Descriptors /\ meta = NoMeta
    /\ DIdle /\ XIdle /\ RIdle /\ BIdle

PNext == PParse /\ UNCHANGED <<dvars, xvars, rvars, bvars>>

ParseSpec == PInitState /\ [][PNext]_vars

\* The calls of decode_pixel: a band of width x height elements, raw or
\* compressed, and a pixel inside or just outside the grid.
PixelCalls ==
    {[dtype_str |-> t, width |-> w, height |-> h, pixel_x |-> x, pixel_y |-> y,
      compressed |-> c, band_size |-> IF c THEN 20 + w * h ELSE w * h * TypeBytes(t),
      stream |-> [kind |-> k, outLen |-> w * h * TypeBytes(t),
                  init1 |-> TRUE, init2 |-> TRUE]] :
        t \in {Str_uint8, Str_uint16, Str_bogus}, w \in 1..MaxWidth, h \in 1..MaxHeight,
        x \in (0 - 1)..MaxWidth, y \in (0 - 1)..MaxHeight,
        c \in BOOLEAN, k \in {"valid", "corrupt"}}

XInitState ==
    /\ xpc = "entry" /\ pixel \in PixelCalls /\ xdata = 0 /\ xreads = {}
    /\ xout = Running
    /\ DIdle /\ PIdle /\ RIdle /\ BIdle

XNext ==
    \/ XPrepare /\ UNCHANGED <<dvars, pvars, rvars, bvars>>
    \/ XRead /\ UNCHANGED <<dvars, pvars, rvars, bvars>>

PixelSpec == XInitState /\ [][XNext]_vars

\* The calls of decode_band: a grid of width x height elements and a buffer,
\* raw or compressed, that holds all of them or falls short of it by some
\* elements, with or without a trailing part of an element.
BandCalls ==
    {LET n == IF w * h > short THEN w * h - short ELSE 0
         bytes == n * TypeBytes(t) + (IF TypeBytes(t) > 1 THEN extra ELSE 0)
     IN [dtype_str |-> t, width |-> w, height |-> h, compressed |-> c,
         band_size |-> IF c THEN 20 + w * h ELSE bytes,
         stream |-> [kind |-> k, outLen |-> bytes, init1 |-> TRUE, init2 |-> TRUE]] :
        t \in {Str_uint8, Str_uint16, Str_bogus}, w \in 1..MaxWidth, h \in 1..MaxHeight,
        short \in 0..MaxShort, extra \in 0..1,
        c \in BOOLEAN, k \in {"valid", "corrupt"}}

BInitState ==
    /\ bpc = "entry" /\ band_call \in BandCalls /\ bdata = 0 /\ pixel_count = 0
    /\ bi = 0 /\ breads = {} /\ band_result = <<>> /\ bout = Running
    /\ DIdle /\ PIdle /\ XIdle /\ RIdle

BNext ==
    \/ BPrepare /\ UNCHANGED <<dvars, pvars, xvars, rvars>>
    \/ BReadElement /\ UNCHANGED <<dvars, pvars, xvars, rvars>>
    \/ BReturn /\ UNCHANGED <<dvars, pvars, xvars, rvars>>

BandSpec == BInitState /\ [][BNext]_vars

\* The state at the top of the loop: every row valid, nothing written.
Init ==
    /\ rpc = "loop"
    /\ fn \in Overloads
    /\ args \in Batches(fn)
    /\ i = 0
    /\ result_validity = [k \in 1..Len(args) |-> TRUE]
    /\ field_validity = [k \in 1..Len(args) |-> AllFields]
    /\ struct_entries = [k \in 1..Len(args) |-> Unset]
    /\ calls = [k \in 1..Len(args) |-> NoCall]
    /\ failed = NoException
    /\ DIdle /\ PIdle /\ XIdle /\ BIdle

Next ==
    \/ STRasterSummaryStatsFunction /\ UNCHANGED <<dvars, pvars, xvars, bvars>>
    \/ STRasterSummaryStatsSimpleFunction /\ UNCHANGED <<dvars, pvars, xvars, bvars>>
    \/ STRasterSummaryStatsMetadataFunction /\ UNCHANGED <<dvars, pvars, xvars, bvars>>
    \/ STRasterSummaryStatsMetadataBandFunction /\ UNCHANGED <<dvars, pvars, xvars, bvars>>
    \/ SetVectorType /\ UNCHANGED <<dvars, pvars, xvars, bvars>>

Spec == Init /\ [][Next]_vars

(***************************************************************************)
(* Claims about decompress_gzip, checked under DecompressSpec.             *)
(***************************************************************************)
DDone == dpc = "done"

\* C6: decompress on an input of declared size 0 returns an empty buffer
\* without error whatever the pointer, and on a null pointer with a nonzero
\* declared size it raises InvalidInput before any decompression is
\* attempted (no buffer allocated, no zlib call made).
C6_EmptyAndNullInput ==
    DDone =>
      /\ size = 0 => returned = Returned(0)
      /\ (size # 0 /\ data = "null") =>
            /\ returned.tag = "raised"
            /\ ErrorKind(returned.what) = "InvalidInput"
            /\ passes = <<>>
            /\ result_size = 0

\* The null pointer with a nonzero size has been refused.
C6_Witness == DDone /\ size # 0 /\ data = "null" /\ returned.tag = "raised"

\* What pass k reported, recomputed from the stream and that pass's buffer.
PassReport(k) == inflate(stream, passes[k])

C7_Safety ==
    /\ Len(passes) <= 2
    /\ Len(passes) = 2 =>
          /\ NeedsRetry(PassReport(1).ret, PassReport(1).avail_out)
          /\ passes[2] >= 4 * passes[1]
          /\ DDone
          /\ result_size = passes[2]
          /\ PassReport(2).ret # Z_STREAM_END =>
                /\ returned.tag = "raised"
                /\ ErrorKind(returned.what) = "DecodeFailure"

\* C7: every call to decompress ends after at most two decompression
\* passes; the second is made only when the first reported the output buffer
\* exhausted, with a buffer at least 4 times the first, and a failure of the
\* second pass ends the call with DecodeFailure: no further pass, no further
\* buffer growth.
C7_BoundedRetry == [](C7_Safety) /\ <>DDone

\* A call whose second pass failed too.
C7_Witness == DDone /\ Len(passes) = 2 /\ returned.tag = "raised"

\* The heuristic first buffer as the claim states it.
ClaimedFirstBuffer(sz) == IF sz <= 100 THEN 65536 ELSE 50 * sz

\* A call that reaches zlib with a valid stream and a working allocator.
ValidCall ==
    /\ size > 0
    /\ data = "ptr"
    /\ stream.kind = "valid"
    /\ stream.init1
    /\ stream.init2

\* C8 as stated: every valid stream whose plain text exceeds the first
\* buffer is recovered whole through the retry.
C8_Original ==
    (DDone /\ ValidCall /\ stream.outLen > ClaimedFirstBuffer(size)) =>
       returned = Returned(stream.outLen)

\* C8, amended: a valid stream whose plain text exceeds the first buffer
\* (65536 bytes for inputs of at most 100 bytes, 50 times the input size
\* otherwise) but not 4 times that buffer is recovered whole through the
\* retry; one that exceeds 4 times the first buffer raises DecodeFailure.
C8_RetryRecovers ==
    (DDone /\ ValidCall /\ stream.outLen > ClaimedFirstBuffer(size)) =>
       /\ passes = <<ClaimedFirstBuffer(size), 4 * ClaimedFirstBuffer(size)>>
       /\ IF stream.outLen <= 4 * ClaimedFirstBuffer(size)
          THEN returned = Returned(stream.outLen)
          ELSE /\ returned.tag = "raised"
               /\ ErrorKind(returned.what) = "DecodeFailure"

\* A valid stream recovered by the second pass.
C8_Witness ==
    /\ DDone
    /\ ValidCall
    /\ stream.outLen > ClaimedFirstBuffer(size)
    /\ Len(passes) = 2
    /\ returned = Returned(stream.outLen)

(***************************************************************************)
(* Claims about parse_metadata, checked under ParseSpec.                   *)
(***************************************************************************)
PDone == ppc = "done"

\* The key occurs nowhere in the descriptor, neither inside nor outside a
\* tiling object.
KeyAbsent(key) == Find(descriptor, SearchKey(key), 0) = npos

\* parse_metadata returned: no field holds an exception in place of a value.
StringFields == {"compression", "crs", "scheme"}
IntFields ==
    {"min_zoom", "max_zoom", "pixel_zoom", "num_blocks", "block_width", "block_height"}

ParseReturned ==
    /\ meta # NoMeta
    /\ \A f \in StringFields : meta[f] # OutOfRange
    /\ \A f \in IntFields : meta[f] \in Int
    /\ meta.bands # OutOfRange

\* The documented defaults of the integer fields and of compression and the
\* band list, for the keys the descriptor does not hold.
C9_IntDefaults ==
    /\ KeyAbsent(Key_compression) => meta.compression = <<"n", "o", "n", "e">>
    /\ KeyAbsent(Key_block_width) => meta.block_width = 256
    /\ KeyAbsent(Key_block_height) => meta.block_height = 256
    /\ KeyAbsent(Key_min_zoom) => meta.min_zoom = 0
    /\ KeyAbsent(Key_max_zoom) => meta.max_zoom = 26
    /\ KeyAbsent(Key_pixel_zoom) => meta.pixel_zoom = 0
    /\ KeyAbsent(Key_num_blocks) => meta.num_blocks = 0
    /\ Find(descriptor, Str_bandsKey, 0) = npos => meta.bands = <<>>

\* C9: for any descriptor string parse returns a RasterMetadata without
\* raising, and each field whose key is absent from the descriptor holds its
\* documented default (compression "none", blockWidth 256, blockHeight 256,
\* minZoom 0, maxZoom 26, pixelZoom 0, numBlocks 0, scheme "quadbin", empty
\* band list), with the tiling section missing or present.
C9_DefaultsWhenAbsent ==
    PDone =>
      /\ ParseReturned
      /\ C9_IntDefaults
      /\ KeyAbsent(Key_scheme) => meta.scheme = <<"q", "u", "a", "d", "b", "i", "n">>

(***************************************************************************)
(* Claims about decode_pixel, checked under PixelSpec.                     *)
(***************************************************************************)
XDone == xpc = "done"

\* The pixel lies outside the width x height grid of the band.
OutsideGrid(px) ==
    \/ px.pixel_x < 0
    \/ px.pixel_y < 0
    \/ px.pixel_x >= px.width
    \/ px.pixel_y * px.width + px.pixel_x >= px.width * px.height

\* C10: decodePixel bounds-checks the element offset y*width + x against the
\* grid before reading: for any (x, y) outside the grid (negative
\* coordinate, x >= width, or offset >= width*height) it raises InvalidInput
\* and performs no read of the band buffer.
C10_OutsideGridRaises ==
    (XDone /\ pixel.dtype_str \in KnownTypes /\ OutsideGrid(pixel)
       /\ (pixel.compressed => pixel.stream.kind = "valid")) =>
       /\ xout.tag = "raised"
       /\ xreads = {}

(***************************************************************************)
(* Claims about the ST_RasterSummaryStats overloads, checked under Spec.   *)
(***************************************************************************)
\* What the statistics of a row are when the row is looked at on its own:
\* the configuration its overload derives, handed to the engine.
SoloOutcome(f, row) ==
    CASE f = "Stats" -> compute_band_stats(row.band, StatsConfig(row))
      [] f = "StatsSimple" -> compute_band_stats(row.band, StatsSimpleConfig(row))
      [] f = "StatsMetadata" ->
           compute_band_stats(row.band, StatsMetadataConfig(ParsedMeta(row.metadata)))
      [] OTHER ->
           IF get_band_type(parse_metadata(row.metadata), row.band_idx).tag = "raised"
           THEN get_band_type(parse_metadata(row.metadata), row.band_idx)
           ELSE compute_band_stats(row.band,
                    StatsMetadataBandConfig(ParsedMeta(row.metadata), row.band_idx))

\* The rows C1 is about.
BadRow(f, row) ==
    \/ row.band.null
    \/ Len(row.band.raw) = 0
    \/ (f = "StatsMetadataBand" /\ row.band_idx < 0)
    \/ SoloOutcome(f, row).tag = "raised"

\* C1: in each of the four overloads a row whose band is NULL or empty,
\* whose band index is negative, or whose decoding or statistics raise, gets
\* a NULL struct and nothing written; no exception leaves the function; every
\* other row done so far holds the statistics it has on its own, and the rows
\* not yet done are untouched.
C1_RowLevelNull ==
    /\ failed = NoException
    /\ rpc # "failed"
    /\ \A j \in 1..Len(args) :
          IF j > i
          THEN result_validity[j] /\ struct_entries[j] = Unset
          ELSE IF BadRow(fn, args[j])
          THEN ~result_validity[j] /\ struct_entries[j] = Unset
          ELSE /\ result_validity[j]
               /\ struct_entries[j] = SoloOutcome(fn, args[j]).stats

\* A finished batch in which a row whose computation raised is followed by a
\* row that got its statistics.
C1_Witness ==
    /\ rpc = "done"
    /\ \E j, k \in 1..Len(args) :
          /\ j < k
          /\ ~args[j].band.null /\ Len(args[j].band.raw) > 0
          /\ SoloOutcome(fn, args[j]).tag = "raised"
          /\ ~result_validity[j]
          /\ result_validity[k] /\ struct_entries[k] # Unset

\* A row of the (band, metadata, band_index) overload whose index is not
\* negative and not below the number of bands the descriptor declares.
OutOfRangeRow(row) ==
    /\ ~row.band.null
    /\ Len(row.band.raw) > 0
    /\ row.band_idx >= 0
    /\ row.band_idx >= Len(parse_metadata(row.metadata).bands)

C3_ConfigFromDescriptor ==
    fn = "StatsMetadata" =>
        \A j \in 1..i :
            LET row == args[j]
                m == parse_metadata(row.metadata)
                info == parse_band_info(row.metadata)
                declared == info # <<>> /\ info[1].has_nodata
            IN  IF row.band.null \/ Len(row.band.raw) = 0
                THEN calls[j] = NoCall
                ELSE /\ calls[j] # NoCall
                     /\ calls[j].dtype = (IF Len(m.bands) = 0 THEN Str_uint8
                                          ELSE m.bands[1][2])
                     /\ calls[j].width = m.block_width
                     /\ calls[j].height = m.block_height
                     /\ calls[j].compressed <=> (m.compression = Str_gzip)
                     /\ calls[j].has_nodata <=> declared
                     /\ (declared => calls[j].nodata = info[1].nodata)

\* A finished batch of the (band, metadata) overload with a row done under a
\* gzip descriptor whose first band declares a nodata, and a row done under a
\* descriptor that declares no band.
C3_Witness ==
    /\ fn = "StatsMetadata"
    /\ rpc = "done"
    /\ \E j, k \in 1..Len(args) :
          /\ calls[j] # NoCall /\ calls[k] # NoCall
          /\ args[j].metadata = Desc_GzipTwoBands
          /\ calls[j].compressed /\ calls[j].has_nodata
          /\ calls[j].dtype = Str_float64
          /\ result_validity[j]
          /\ args[k].metadata = Desc_NoBands
          /\ calls[k].dtype = Str_uint8
          /\ ~calls[k].has_nodata
          /\ result_validity[k]

\* C4: a row whose samples are all excluded as nodata has count 0 and sum 0
\* in its struct, and its mean, min, max and stddev are NULL.
C4_EmptyStatsAreNull ==
    \A j \in 1..i :
        (result_validity[j] /\ struct_entries[j] # Unset
           /\ struct_entries[j].count = 0) =>
            /\ struct_entries[j].sum = Num(0)
            /\ field_validity[j] \cap {"mean", "min", "max", "stddev"} = {}

\* The samples of a row of the overload with a nodata argument.
C5_Samples(row) ==
    LET cells == IF row.compression = Str_gzip THEN row.band.plain ELSE row.band.raw
    IN [k \in 1..(row.width * row.height) |-> cells[k]]

\* The rule of C5: no sample under a NULL nodata, the not-a-number samples
\* under a not-a-number nodata, the samples equal to it under any other.
C5_Excluded(v, nd) ==
    /\ ~nd.null
    /\ IF nd.v.nan THEN v.nan ELSE ~v.nan /\ v.v = nd.v.v

\* C5: in the overload with a nodata argument the filter is on exactly when
\* the nodata is not NULL, and the count of a row is the number of its
\* samples the rule does not exclude: all of them under a NULL nodata, those
\* that are numbers under a not-a-number nodata, those different from it
\* under any other.
C5_NodataFilter ==
    fn = "Stats" =>
        \A j \in 1..i :
            LET row == args[j] IN
            /\ calls[j] # NoCall =>
                  /\ calls[j].has_nodata <=> ~row.nodata.null
                  /\ calls[j].nodata = row.nodata.v
            /\ (result_validity[j] /\ struct_entries[j] # Unset) =>
                  struct_entries[j].count =
                      Cardinality({k \in 1..(row.width * row.height) :
                                     ~C5_Excluded(C5_Samples(row)[k], row.nodata)})

\* A row with a not-a-number nodata and one not-a-number sample among its
\* two: one sample counted.
C5_Witness ==
    /\ fn = "Stats"
    /\ \E j \in 1..i :
          /\ ~args[j].nodata.null /\ args[j].nodata.v.nan
          /\ \E k \in 1..Len(args[j].band.raw) : args[j].band.raw[k].nan
          /\ \E k \in 1..Len(args[j].band.raw) : ~args[j].band.raw[k].nan
          /\ args[j].compression = Str_none
          /\ result_validity[j] /\ struct_entries[j] # Unset
          /\ struct_entries[j].count = Len(args[j].band.raw) - 1

(***************************************************************************)
(* Claims about decode_band, checked under BandSpec.                       *)
(***************************************************************************)
\* C11: decode_band never reads past the end of the buffer it decodes: every
\* element offset it has read lies wholly inside the buffer, and no read
\* ended the process, also when the buffer holds fewer than width * height
\* elements.
C11_ReadsInsideBuffer ==
    /\ \A k \in breads : k < bdata
    /\ bout # Crashed

(***************************************************************************)
(* Claims about the tiling object and the band list, checked under         *)
(* ParseSpec.                                                              *)
(***************************************************************************)
\* The occurrences of a character among the positions from..(to - 1) of s.
C12_Count(s, c, from, to) == Cardinality({p \in from..(to - 1) : At(s, p) = c})

NoScope == <<"no tiling object">>

\* The brace-balanced substring of the tiling object, said without a scan:
\* it starts at the brace that follows "tiling": and white space, and ends
\* with the first character up to which as many braces close as open (with
\* the descriptor when there is none).
C12_Scope(json) ==
    LET found == Find(json, SearchKey(Key_tiling), 0)
        after == found + Len(SearchKey(Key_tiling))
        rest == {p \in after..(Len(json) - 1) : At(json, p) \notin {" ", "\t", "\n"}}
        start == SetMin(rest)
        ends == {e \in (start + 1)..Len(json) :
                    C12_Count(json, "{", start, e) = C12_Count(json, "}", start, e)}
    IN IF found = npos \/ rest = {} THEN NoScope
       ELSE IF At(json, start) # "{" THEN NoScope
       ELSE SubSeq(json, start + 1, IF ends = {} THEN Len(json) ELSE SetMin(ends))

\* The tiling keys, their fields and their defaults.
C12_IntKeys ==
    {[field |-> "min_zoom", key |-> Key_min_zoom, default |-> 0],
     [field |-> "max_zoom", key |-> Key_max_zoom, default |-> 26],
     [field |-> "pixel_zoom", key |-> Key_pixel_zoom, default |-> 0],
     [field |-> "num_blocks", key |-> Key_num_blocks, default |-> 0],
     [field |-> "block_width", key |-> Key_block_width, default |-> 256],
     [field |-> "block_height", key |-> Key_block_height, default |-> 256]}

\* What each integer field written in a tiling object is read as.
C12_Written ==
    {[field |-> "min_zoom", key |-> Key_min_zoom,
      text |-> SearchKey(Key_min_zoom) \o <<"3">>, value |-> 3],
     [field |-> "max_zoom", key |-> Key_max_zoom,
      text |-> SearchKey(Key_max_zoom) \o <<"x">>, value |-> 26],
     [field |-> "max_zoom", key |-> Key_max_zoom,
      text |-> SearchKey(Key_max_zoom) \o <<"1", "0">>, value |-> 10],
     [field |-> "block_width", key |-> Key_block_width,
      text |-> SearchKey(Key_block_width) \o <<"5", "1", "2">>, value |-> 512],
     [field |-> "block_height", key |-> Key_block_height,
      text |-> SearchKey(Key_block_height) \o <<" ", "1", "2", "a", "b">>, value |-> 12],
     [field |-> "num_blocks", key |-> Key_num_blocks,
      text |-> SearchKey(Key_num_blocks), value |-> 0],
     [field |-> "num_blocks", key |-> Key_num_blocks,
      text |-> SearchKey(Key_num_blocks) \o <<"4">>, value |-> 4],
     [field |-> "pixel_zoom", key |-> Key_pixel_zoom,
      text |-> SearchKey(Key_pixel_zoom) \o <<"-", "2">>, value |-> 0 - 2]}

\* The text w.text is the first occurrence of its key in the scope t, and
\* its value ends there.
C12_FirstIn(t, w) ==
    LET p == Find(t, w.text, 0) IN
    /\ p # npos
    /\ p = Find(t, SearchKey(w.key), 0)
    /\ p + Len(w.text) < Len(t)
    /\ At(t, p + Len(w.text)) \in {",", "}"}

\* C12: the tiling fields are looked up inside the brace-balanced substring
\* of the tiling object only.  A key written inside it gives the field its
\* value (the first occurrence, the default when the value is no number); a
\* key written only outside it, at top level or in a sibling object, leaves
\* the field at a default (scheme: the empty string or "quadbin", never the
\* value written outside); without a tiling object every field has its
\* default.
C12_TilingScoped ==
    PDone =>
        LET t == C12_Scope(descriptor) IN
        IF t = NoScope
        THEN /\ \A k \in C12_IntKeys : meta[k.field] = k.default
             /\ meta.scheme = Str_quadbin
        ELSE /\ \A k \in C12_IntKeys :
                  /\ meta[k.field] = extract_json_int(t, k.key, k.default)
                  /\ Find(t, SearchKey(k.key), 0) = npos => meta[k.field] = k.default
             /\ \A w \in C12_Written : C12_FirstIn(t, w) => meta[w.field] = w.value
             /\ meta.scheme = extract_json_string(t, Key_scheme)
             /\ Find(t, SearchKey(Key_scheme), 0) = npos
                   => meta.scheme \in {Str_empty, Str_quadbin}
             /\ (/\ Find(t, SearchKey(Key_scheme), 0) # npos
                 /\ Find(t, SearchKey(Key_scheme) \o <<"\"", "h", "3", "\"">>, 0)
                       = Find(t, SearchKey(Key_scheme), 0))
                   => meta.scheme = <<"h", "3">>

\* A descriptor with "min_zoom":7 at top level before a tiling object that
\* holds "min_zoom":3 and, within a nested object, "num_blocks":4 , and with
\* "max_zoom":9 in a sibling object after it: 3, 4 and the default 26.
C12_Witness ==
    /\ PDone
    /\ C12_Scope(descriptor) # NoScope
    /\ Find(descriptor, SearchKey(Key_min_zoom) \o <<"7">>, 0) # npos
    /\ Find(descriptor, SearchKey(Key_max_zoom) \o <<"9">>, 0) # npos
    /\ Find(C12_Scope(descriptor), SearchKey(Key_max_zoom), 0) = npos
    /\ meta.min_zoom = 3
    /\ meta.num_blocks = 4
    /\ meta.max_zoom = 26

\* The span of the band list: the characters strictly between the first [
\* after the "bands" key and the first ] after that [ , or none.
NoSpan == <<"no band list">>

C13_Span(json) ==
    LET key == Find(json, Str_bandsKey, 0)
        opens == {p \in key..(Len(json) - 1) : At(json, p) = "["}
        open == SetMin(opens)
        closes == {p \in (open + 1)..(Len(json) - 1) : At(json, p) = "]"}
    IN IF key = npos \/ opens = {} THEN NoSpan
       ELSE IF closes = {} THEN NoSpan
       ELSE SubSeq(json, open + 2, SetMin(closes))

\* The closing braces of s after position o.
C13_Closers(s, o) == {c \in (o + 1)..(Len(s) - 1) : At(s, c) = "}"}

\* Where the band objects of a span start: at an opening brace that has a
\* closing brace after it and does not lie within an earlier object, that
\* is, every opening brace before it is closed before it.
C13_Starts(s) ==
    {o \in 0..(Len(s) - 1) :
        /\ At(s, o) = "{"
        /\ C13_Closers(s, o) # {}
        /\ \A p \in 0..(o - 1) :
              At(s, p) = "{" => \E q \in (p + 1)..(o - 1) : At(s, q) = "}"}

\* The band object that starts at o: up to the first closing brace.
C13_Object(s, o) == SubSeq(s, o + 1, SetMin(C13_Closers(s, o)) + 1)

C13_Name(s, o) == extract_json_string(C13_Object(s, o), Key_name)
C13_Type(s, o) == extract_json_string(C13_Object(s, o), Key_type)

C13_Kept(s) ==
    {o \in C13_Starts(s) : C13_Name(s, o) # Str_empty /\ C13_Type(s, o) # Str_empty}

\* What the band objects written in the descriptors are read as: the pair
\* kept, or none.
C13_Written ==
    {[text |-> <<"{", "\"", "n", "a", "m", "e", "\"", ":", "\"", "a", "\"", ",", "\"",
                 "t", "y", "p", "e", "\"", ":", "\"", "u", "i", "n", "t", "8", "\"",
                 "}">>,
      pair |-> <<<<"a">>, Str_uint8>>],
     [text |-> <<"{", "\"", "n", "a", "m", "e", "\"", ":", "\"", "b", "\"", "}">>,
      pair |-> <<>>],
     [text |-> <<"{", "\"", "n", "a", "m", "e", "\"", ":", "\"", "\"", ",", "\"", "t",
                 "y", "p", "e", "\"", ":", "\"", "x", "\"", "}">>,
      pair |-> <<>>],
     [text |-> <<"{", "\"", "t", "y", "p", "e", "\"", ":", "\"", "f", "\"", ",", "\"",
                 "n", "a", "m", "e", "\"", ":", "\"", "c", "\"", "}">>,
      pair |-> <<<<"c">>, <<"f">>>>],
     [text |-> <<"{", "\"", "n", "a", "m", "e", "\"", ":", "\"", "d", "\"", ",", "\"",
                 "o", "\"", ":", "{", "\"", "t", "y", "p", "e", "\"", ":", "\"", "t",
                 "\"", "}">>,
      pair |-> <<<<"d">>, <<"t">>>>]}

\* C13: the band list holds, in their order, one (name, type) pair for each
\* band object of the span whose name and type are both non-empty, and
\* nothing else; an object without a name or a type is left out and the
\* objects after it are still read; without a span the list is empty.
C13_BandList ==
    PDone =>
        LET s == C13_Span(descriptor) IN
        IF s = NoSpan THEN meta.bands = <<>>
        ELSE /\ Len(meta.bands) = Cardinality(C13_Kept(s))
             /\ \A o \in C13_Kept(s) :
                   meta.bands[1 + Cardinality({k \in C13_Kept(s) : k < o})]
                       = <<C13_Name(s, o), C13_Type(s, o)>>
             /\ \A o \in C13_Starts(s) :
                   \A w \in C13_Written :
                       C13_Object(s, o) = w.text =>
                           IF w.pair = <<>> THEN o \notin C13_Kept(s)
                           ELSE /\ o \in C13_Kept(s)
                                /\ <<C13_Name(s, o), C13_Type(s, o)>> = w.pair

\* A band list of two objects, the first without a type: the second alone
\* is in the parsed list.
C13_Witness ==
    /\ PDone
    /\ C13_Span(descriptor) # NoSpan
    /\ Cardinality(C13_Starts(C13_Span(descriptor))) = 2
    /\ C13_Kept(C13_Span(descriptor)) = {13}
    /\ meta.bands = <<<<<<"a">>, Str_uint8>>>>

=============================================================================
